---- MODULE Spec2Model ----
(***************************************************************************)
(* A model of src/src/pipelines.js: the pipeline() factory with its task   *)
(* registry, and the _call methods of the task pipelines (classification,  *)
(* question answering, text2text generation, speech recognition, zero-shot *)
(* classification, fill-mask, image segmentation and object detection).    *)
(*                                                                         *)
(* Conventions.                                                            *)
(*  - A JavaScript string that the code splits is a sequence of tokens:    *)
(*    "_" is the delimiter token, every other token is a maximal           *)
(*    underscore-free word ("translation_en" is <<"translation","_","en">>,*)
(*    the empty string is <<>>).                                           *)
(*  - JavaScript arrays are sequences; array index i of the source is      *)
(*    index i+1 here.                                                      *)
(*  - A JavaScript value whose shape matters is a tagged record.           *)
(*  - A probability is kept exact, as <<numerator, denominator>>.          *)
(***************************************************************************)
EXTENDS Integers, Sequences, FiniteSets, TLC

VARIABLES
    \* ---- pipeline() factory (pipelines.js 1397-1470)
    fpc,               \* position in pipeline(): idle, start, await, dispatch, construct, done
    callTask,          \* the `task` argument the caller passed
    task,              \* the local `task` after alias resolution
    model,             \* the local `model` (model id, or Null)
    progress_callback, \* TRUE when the caller supplied a progress callback
    pipelineInfo,      \* the descriptor SUPPORTED_TASKS[...] yielded
    promises,          \* kinds pushed to `promises`, in push order
    loadState,         \* kind -> none | pending | resolved | rejected
    loadModel,         \* kind -> the model id the load was issued with
    firstRejected,     \* the first load to reject ("none" while there is none)
    events,            \* status events dispatched to progress_callback
    hasLabel2id,       \* whether the loaded model's config has label2id
    ctor,              \* none | done | threw: the pipeline constructor
    instance,          \* the constructed pipeline (NoInstance before)
    outcome,           \* how the promise pipeline() returned has settled
    \* ---- Pipeline._call of the classification / QA / text2text pipelines
    cpc,               \* idle, start, model, decode, done
    kind,              \* which pipeline class is being called
    texts,             \* the input: [isArray, n]
    topk,              \* the topk option
    outputs,           \* the model's output tensors, one entry per batch item
    toReturn,          \* the local `toReturn`
    result,            \* what _call resolved to
    \* ---- options and collaborators of the zero-shot, fill-mask and image pipelines
    candidate_labels,  \* the candidate labels of a zero-shot call
    multi_label,       \* the multi_label option
    entails_logits,    \* the local `entails_logits` of the premise being scored
    subtask,           \* the local `subtask` of a segmentation call (Null for null)
    fn,                \* the local `fn` of a segmentation call
    feature_extractor, \* the post-processing functions this.processor.feature_extractor has
    calls,             \* the collaborator calls _call has made so far, in order
    error,             \* the error _call threw (NoError while it has not)
    \* ---- AutomaticSpeechRecognitionPipeline._call
    apc,               \* idle, start, chunking, generate, generating, merge, done, threw
    aud,               \* aud.length: the number of samples of the clip
    chunk_length_s,    \* kwargs.chunk_length_s, in seconds
    stride_length_s,   \* kwargs.stride_length_s: <<k>> for k sixths of a second, <<>> for null
    chunk_callback,    \* TRUE when kwargs.chunk_callback is supplied
    offset,            \* the local `offset`
    chunks,            \* the local `chunks`
    generated,         \* how many chunks the generation loop has completed
    trace,             \* collaborator and callback calls made so far, in order
    \* ---- invocations of one pipeline instance that are in progress together
    invocations        \* invocation -> [pc, n, made]: its position and its model calls

factoryVars == <<fpc, callTask, task, model, progress_callback, pipelineInfo, promises,
                 loadState, loadModel, firstRejected, events, hasLabel2id, ctor,
                 instance, outcome>>
callVars == <<cpc, kind, texts, topk, outputs, toReturn, result>>
asrVars == <<apc, aud, chunk_length_s, stride_length_s, chunk_callback, offset, chunks,
             generated, trace>>
optionVars == <<candidate_labels, multi_label, entails_logits, subtask, fn,
                feature_extractor, calls, error>>
vars == <<factoryVars, callVars, optionVars, asrVars, invocations>>

Null == "null"

(***************************************************************************)
(* Bounds of the model.                                                    *)
(***************************************************************************)
MaxBatch == 2
MaxLabels == 2
MaxLogit == 1
MaxTopk == 3
MaxSeqLen == 3
MaxClip == 8
MaxChunkLen == 1
MaxStride == 6
MaxChunks == 4
MaxInvocations == 2

(***************************************************************************)
(* JavaScript helpers.                                                     *)
(***************************************************************************)
RECURSIVE TakeUntilSep(_)
\* s.split('_', 1)[0]: the tokens before the first delimiter.
TakeUntilSep(s) ==
    IF s = <<>> \/ Head(s) = "_" THEN <<>>
    ELSE <<Head(s)>> \o TakeUntilSep(Tail(s))

\* Property names every object literal inherits from Object.prototype.
ObjectPrototypeKeys == {<<"constructor">>}

Str(s) == [t |-> "string", s |-> s]
InheritedFunction == [t |-> "function", s |-> <<>>]
Undefined == [t |-> "undefined", s |-> <<>>]

(***************************************************************************)
(* The task registry.                                                      *)
(***************************************************************************)
Descriptor(tok, proc, cls, def) ==
    [tokenizer |-> tok, model |-> TRUE, processor |-> proc, pipeline |-> cls,
     default |-> def, registered |-> TRUE]

\* Object.keys(SUPPORTED_TASKS), in insertion order.
SupportedTaskKeys ==
    << <<"text-classification">>, <<"token-classification">>, <<"question-answering">>,
       <<"fill-mask">>, <<"summarization">>, <<"translation">>,
       <<"text2text-generation">>, <<"text-generation">>, <<"zero-shot-classification">>,
       <<"automatic-speech-recognition">>, <<"image-to-text">>, <<"image-classification">>,
       <<"image-segmentation">>, <<"zero-shot-image-classification">>,
       <<"object-detection">>, <<"feature-extraction">> >>

SUPPORTED_TASKS ==
    (<<"text-classification">> :> Descriptor(TRUE, FALSE, "TextClassificationPipeline",
        "Xenova/distilbert-base-uncased-finetuned-sst-2-english")) @@
    (<<"token-classification">> :> Descriptor(TRUE, FALSE, "TokenClassificationPipeline",
        "Xenova/bert-base-multilingual-cased-ner-hrl")) @@
    (<<"question-answering">> :> Descriptor(TRUE, FALSE, "QuestionAnsweringPipeline",
        "Xenova/distilbert-base-cased-distilled-squad")) @@
    (<<"fill-mask">> :> Descriptor(TRUE, FALSE, "FillMaskPipeline",
        "Xenova/bert-base-uncased")) @@
    (<<"summarization">> :> Descriptor(TRUE, FALSE, "SummarizationPipeline",
        "Xenova/distilbart-cnn-6-6")) @@
    (<<"translation">> :> Descriptor(TRUE, FALSE, "TranslationPipeline",
        "Xenova/t5-small")) @@
    (<<"text2text-generation">> :> Descriptor(TRUE, FALSE, "Text2TextGenerationPipeline",
        "Xenova/flan-t5-small")) @@
    (<<"text-generation">> :> Descriptor(TRUE, FALSE, "TextGenerationPipeline",
        "Xenova/gpt2")) @@
    (<<"zero-shot-classification">> :> Descriptor(TRUE, FALSE,
        "ZeroShotClassificationPipeline", "Xenova/distilbert-base-uncased-mnli")) @@
    (<<"automatic-speech-recognition">> :> Descriptor(TRUE, TRUE,
        "AutomaticSpeechRecognitionPipeline", "Xenova/whisper-tiny.en")) @@
    (<<"image-to-text">> :> Descriptor(TRUE, TRUE, "ImageToTextPipeline",
        "Xenova/vit-gpt2-image-captioning")) @@
    (<<"image-classification">> :> Descriptor(FALSE, TRUE, "ImageClassificationPipeline",
        "Xenova/vit-base-patch16-224")) @@
    (<<"image-segmentation">> :> Descriptor(FALSE, TRUE, "ImageSegmentationPipeline",
        "Xenova/detr-resnet-50-panoptic")) @@
    (<<"zero-shot-image-classification">> :> Descriptor(TRUE, TRUE,
        "ZeroShotImageClassificationPipeline", "Xenova/clip-vit-base-patch32")) @@
    (<<"object-detection">> :> Descriptor(FALSE, TRUE, "ObjectDetectionPipeline",
        "Xenova/detr-resnet-50")) @@
    (<<"feature-extraction">> :> Descriptor(TRUE, FALSE, "FeatureExtractionPipeline",
        "Xenova/all-MiniLM-L6-v2"))

TASK_ALIASES ==
    (<<"sentiment-analysis">> :> <<"text-classification">>) @@
    (<<"ner">> :> <<"token-classification">>) @@
    (<<"vqa">> :> <<"visual-question-answering">>) @@
    (<<"embeddings">> :> <<"feature-extraction">>)

\* The value SUPPORTED_TASKS[key] of an inherited property name: the function
\* Object, which is truthy and has none of a descriptor's properties.
InheritedInfo ==
    [tokenizer |-> FALSE, model |-> FALSE, processor |-> FALSE, pipeline |-> "undefined",
     default |-> "undefined", registered |-> FALSE]

NoInfo ==
    [tokenizer |-> FALSE, model |-> FALSE, processor |-> FALSE, pipeline |-> "none",
     default |-> "none", registered |-> FALSE]

\* TASK_ALIASES[task] ?? task
ApplyAliases(t) ==
    IF t \in DOMAIN TASK_ALIASES THEN Str(TASK_ALIASES[t])
    ELSE IF t \in ObjectPrototypeKeys THEN InheritedFunction
    ELSE Str(t)

\* SUPPORTED_TASKS[task.split('_', 1)[0]]; NoInfo stands for undefined.
GetPipelineInfo(t) ==
    LET key == TakeUntilSep(t)
    IN  IF key \in DOMAIN SUPPORTED_TASKS THEN SUPPORTED_TASKS[key]
        ELSE IF key \in ObjectPrototypeKeys THEN InheritedInfo
        ELSE NoInfo

(***************************************************************************)
(* pipeline(): the factory.                                                *)
(***************************************************************************)
Kinds == <<"tokenizer", "model", "processor">>
KindSet == {"tokenizer", "model", "processor"}

\* Task names the caller may pass: every registered key, every alias, a key
\* with a '_' suffix, an alias with a suffix, unknown names, the empty
\* string, a name that starts with the delimiter, and inherited property
\* names of the registry object.
TaskInputs ==
    {SupportedTaskKeys[i] : i \in 1..Len(SupportedTaskKeys)} \cup DOMAIN TASK_ALIASES \cup
    { <<"translation", "_", "en", "_", "fr">>, <<"sentiment-analysis", "_", "x">>,
      <<"unknown-task">>, <<"unknown-task", "_", "text-classification">>, <<>>,
      <<"_", "text-classification">>, <<"constructor">>, <<"constructor", "_", "x">> }

ModelInputs == {Null, "", "user/model"}

NoError == [name |-> "none", task |-> <<>>, keys |-> <<>>, from |-> "none"]
\* Error(`Unsupported pipeline: ${task}. Must be one of [${Object.keys(SUPPORTED_TASKS)}]`)
UnsupportedError(t) ==
    [name |-> "Unsupported pipeline", task |-> t, keys |-> SupportedTaskKeys, from |-> "pipeline"]
\* A TypeError the JavaScript engine raises at `where`.
TypeError(where) == [name |-> "TypeError", task |-> <<>>, keys |-> <<>>, from |-> where]
\* Whatever <kind>Class.from_pretrained rejected with.
LoadError(k) == [name |-> "LoadError", task |-> <<>>, keys |-> <<>>, from |-> k]

Pending == [state |-> "pending", error |-> NoError]
Resolved == [state |-> "resolved", error |-> NoError]
Rejected(e) == [state |-> "rejected", error |-> e]

NoInstance ==
    [class |-> "none", task |-> Undefined, tokenizer |-> "undefined", model |-> "undefined",
     processor |-> "undefined"]

\* A load pushed for every kind, declared or not.
DeclaredKindsAll(info) == Kinds

\* if (tokenizerClass) promises.push(...); if (modelClass) ...; if (processorClass) ...
DeclaredKinds(info) == SelectSeq(Kinds, LAMBDA k : info[k])

\* The constructor of Pipeline for every class: (task, tokenizer, model).
ConstructorParamsOfPipeline(cls) == <<"tokenizer", "model">>

\* The synchronous prefix of pipeline(), up to `await Promise.all(promises)`.
PipelineSync(t, m) ==
    LET aliased == ApplyAliases(t)
        info == GetPipelineInfo(aliased.s)
        useDefault == m \in {Null, ""}
        chosen == IF useDefault THEN info.default ELSE m
        pushed == DeclaredKinds(info)
        base == [threw |-> FALSE, error |-> NoError, task |-> aliased, model |-> m,
                 info |-> NoInfo, promises |-> <<>>]
    IN  IF aliased.t # "string"
        THEN [base EXCEPT !.threw = TRUE, !.error = TypeError("task.split")]
        ELSE IF info = NoInfo
        THEN [base EXCEPT !.threw = TRUE, !.error = UnsupportedError(aliased.s)]
        ELSE IF useDefault /\ info.default = "undefined"
        THEN [base EXCEPT !.threw = TRUE, !.error = TypeError("pipelineInfo.default.model"),
                          !.info = info]
        ELSE [base EXCEPT !.model = chosen, !.info = info, !.promises = pushed]

FactoryStart ==
    /\ fpc = "start"
    /\ LET r == PipelineSync(callTask, model)
       IN  /\ task' = r.task
           /\ model' = r.model
           /\ pipelineInfo' = r.info
           /\ promises' = r.promises
           /\ loadState' = [k \in KindSet |->
                               IF \E i \in 1..Len(r.promises) : r.promises[i] = k
                               THEN "pending" ELSE "none"]
           /\ loadModel' = [k \in KindSet |->
                               IF \E i \in 1..Len(r.promises) : r.promises[i] = k
                               THEN r.model ELSE Null]
           /\ IF r.threw
              THEN fpc' = "done" /\ outcome' = Rejected(r.error)
              ELSE fpc' = "await" /\ outcome' = outcome
    /\ UNCHANGED <<callTask, progress_callback, firstRejected, events, hasLabel2id, ctor,
                   instance>>
    /\ UNCHANGED <<callVars, optionVars, asrVars, invocations>>

\* One from_pretrained promise settles; the loads complete in any order.
LoadSettle(k, ok) ==
    /\ loadState[k] = "pending"
    /\ loadState' = [loadState EXCEPT ![k] = IF ok THEN "resolved" ELSE "rejected"]
    /\ firstRejected' = IF ~ok /\ firstRejected = "none" THEN k ELSE firstRejected
    /\ UNCHANGED <<fpc, callTask, task, model, progress_callback, pipelineInfo, promises,
                   loadModel, events, hasLabel2id, ctor, instance, outcome>>
    /\ UNCHANGED <<callVars, optionVars, asrVars, invocations>>

\* A mutated await: waits for every load to settle and ignores rejections.
AwaitPromisesAllSettled(ps, ls, first) ==
    IF \A i \in 1..Len(ps) : ls[ps[i]] \in {"resolved", "rejected"} THEN Resolved ELSE Pending

\* await Promise.all(promises): rejected with the first rejection as soon as
\* one load rejects, resolved once every load has resolved.
AwaitPromises(ps, ls, first) ==
    IF first # "none" THEN Rejected(LoadError(first))
    ELSE IF \A i \in 1..Len(ps) : ls[ps[i]] = "resolved" THEN Resolved
    ELSE Pending

FactoryResume ==
    /\ fpc = "await"
    /\ LET a == AwaitPromises(promises, loadState, firstRejected)
       IN  /\ a.state # "pending"
           /\ IF a.state = "rejected"
              THEN fpc' = "done" /\ outcome' = Rejected(a.error)
              ELSE fpc' = "dispatch" /\ outcome' = outcome
    /\ UNCHANGED <<callTask, task, model, progress_callback, pipelineInfo, promises,
                   loadState, loadModel, firstRejected, events, hasLabel2id, ctor, instance>>
    /\ UNCHANGED <<callVars, optionVars, asrVars, invocations>>

\* dispatchCallback(progress_callback, {status: 'ready', task, model})
FactoryDispatch ==
    /\ fpc = "dispatch"
    /\ events' = IF progress_callback
                 THEN Append(events, [status |-> "ready", task |-> task, model |-> model])
                 ELSE events
    /\ fpc' = "construct"
    /\ UNCHANGED <<callTask, task, model, progress_callback, pipelineInfo, promises,
                   loadState, loadModel, firstRejected, hasLabel2id, ctor, instance, outcome>>
    /\ UNCHANGED <<callVars, optionVars, asrVars, invocations>>

\* The positional parameters, after `task`, of each pipeline class's constructor.
ConstructorParams(cls) ==
    IF cls \in {"ImageClassificationPipeline", "ImageSegmentationPipeline",
                "ObjectDetectionPipeline"}
    THEN <<"model", "processor">>
    ELSE IF cls \in {"AutomaticSpeechRecognitionPipeline", "ImageToTextPipeline",
                     "ZeroShotImageClassificationPipeline"}
    THEN <<"tokenizer", "model", "processor">>
    ELSE <<"tokenizer", "model">>

\* new pipelineClass(task, ...items): the i-th item lands in the i-th parameter.
Construct(cls, t, items, label2id) ==
    LET params == ConstructorParams(cls)
        Arg(p) == IF \E i \in 1..Len(params) : params[i] = p
                  THEN LET i == CHOOSE j \in 1..Len(params) : params[j] = p
                       IN  IF i <= Len(items) THEN items[i] ELSE "undefined"
                  ELSE IF p = "tokenizer" THEN "null" ELSE "undefined"
    IN  IF cls = "undefined"
        THEN [threw |-> TRUE, error |-> TypeError("pipelineClass is not a constructor"),
              instance |-> NoInstance]
        ELSE IF cls = "ZeroShotClassificationPipeline" /\ ~label2id
        THEN [threw |-> TRUE, error |-> TypeError("Object.entries(label2id)"),
              instance |-> NoInstance]
        ELSE [threw |-> FALSE, error |-> NoError,
              instance |-> [class |-> cls, task |-> t, tokenizer |-> Arg("tokenizer"),
                            model |-> Arg("model"), processor |-> Arg("processor")]]

FactoryConstruct ==
    /\ fpc = "construct"
    /\ LET c == Construct(pipelineInfo.pipeline, task, promises, hasLabel2id)
       IN  /\ ctor' = IF c.threw THEN "threw" ELSE "done"
           /\ instance' = c.instance
           /\ outcome' = IF c.threw THEN Rejected(c.error) ELSE Resolved
    /\ fpc' = "done"
    /\ UNCHANGED <<callTask, task, model, progress_callback, pipelineInfo, promises,
                   loadState, loadModel, firstRejected, events, hasLabel2id>>
    /\ UNCHANGED <<callVars, optionVars, asrVars, invocations>>

FactoryIdle ==
    /\ fpc = "idle" /\ callTask = <<>> /\ task = Undefined /\ model = Null
    /\ progress_callback = FALSE /\ pipelineInfo = NoInfo /\ promises = <<>>
    /\ loadState = [k \in KindSet |-> "none"] /\ loadModel = [k \in KindSet |-> Null]
    /\ firstRejected = "none" /\ events = <<>> /\ hasLabel2id = FALSE /\ ctor = "none"
    /\ instance = NoInstance /\ outcome = Pending

CallIdle ==
    /\ cpc = "idle" /\ kind = "none" /\ texts = [isArray |-> FALSE, n |-> 0] /\ topk = 0
    /\ outputs = <<>> /\ toReturn = <<>> /\ result = [tag |-> "pending"]

OptionsIdle ==
    /\ candidate_labels = <<>> /\ multi_label = FALSE /\ entails_logits = <<>>
    /\ subtask = Null /\ fn = [t |-> "null", name |-> "none"]
    /\ feature_extractor = {} /\ calls = <<>> /\ error = NoError

InvocationsIdle == invocations = <<>>

AsrIdle ==
    /\ apc = "idle" /\ aud = 0 /\ chunk_length_s = 0 /\ stride_length_s = <<>>
    /\ chunk_callback = FALSE /\ offset = 0 /\ chunks = <<>> /\ generated = 0 /\ trace = <<>>

InitFactory ==
    /\ fpc = "start"
    /\ callTask \in TaskInputs
    /\ model \in ModelInputs
    /\ progress_callback \in BOOLEAN
    /\ hasLabel2id \in BOOLEAN
    /\ task = Undefined /\ pipelineInfo = NoInfo /\ promises = <<>>
    /\ loadState = [k \in KindSet |-> "none"] /\ loadModel = [k \in KindSet |-> Null]
    /\ firstRejected = "none" /\ events = <<>> /\ ctor = "none"
    /\ instance = NoInstance /\ outcome = Pending
    /\ CallIdle /\ OptionsIdle /\ AsrIdle /\ InvocationsIdle

NextFactory ==
    \/ FactoryStart
    \/ \E k \in KindSet, ok \in BOOLEAN : LoadSettle(k, ok)
    \/ FactoryResume
    \/ FactoryDispatch
    \/ FactoryConstruct

SpecFactory == InitFactory /\ [][NextFactory]_vars

(***************************************************************************)
(* Claims about the factory, checked under SpecFactory.                    *)
(***************************************************************************)
\* The task name the alias map yields for the caller's task: the alias's
\* target on an exact match, the literal name otherwise.
ResolvedName == IF callTask \in DOMAIN TASK_ALIASES THEN TASK_ALIASES[callTask] ELSE callTask
ReadyEmitted == \E i \in 1..Len(events) : events[i].status = "ready"
NoLoadIssued == \A k \in KindSet : loadState[k] = "none"

\* C2: pipeline(task) looks the task up in the alias map by exact match, then
\* uses the first '_'-delimited segment of the resolved name as registry key;
\* when that key is not registered the call rejects with the error that names
\* the task and lists all registered keys, no load is issued, no 'ready' event
\* is emitted and no pipeline is returned.
C2_UnregisteredKeyRejects ==
    (fpc # "start" /\ TakeUntilSep(ResolvedName) \notin DOMAIN SUPPORTED_TASKS) =>
        /\ fpc = "done"
        /\ outcome = Rejected(UnsupportedError(ResolvedName))
        /\ NoLoadIssued
        /\ ~ReadyEmitted
        /\ instance = NoInstance

\* C3: every alias leads to a registered descriptor: pipeline(alias) passes
\* the descriptor lookup and never rejects with the unsupported-task error.
C3_AliasesAreRegistered ==
    (fpc # "start" /\ callTask \in DOMAIN TASK_ALIASES) =>
        /\ pipelineInfo.registered
        /\ outcome.error.name # "Unsupported pipeline"

\* C4: once any collaborator load of a pipeline() call has rejected, in any
\* completion order, no 'ready' event is dispatched, no constructor runs, no
\* instance is returned, and the call ends rejected with the unwrapped error
\* of a rejected load (the first one to reject).
C4_LoadRejectionRejectsFactory ==
    (\E k \in KindSet : loadState[k] = "rejected") =>
        /\ fpc \in {"await", "done"}
        /\ ~ReadyEmitted
        /\ ctor = "none"
        /\ instance = NoInstance
        /\ outcome.state # "resolved"
        /\ fpc = "done" =>
              /\ outcome = Rejected(LoadError(firstRejected))
              /\ loadState[firstRejected] = "rejected"

\* A call whose tokenizer resolved first and whose model and processor then
\* rejected has ended rejected with the model load's error.
C4_Witness ==
    /\ fpc = "done"
    /\ progress_callback
    /\ loadState["tokenizer"] = "resolved"
    /\ loadState["model"] = "rejected"
    /\ loadState["processor"] = "rejected"
    /\ firstRejected = "model"
    /\ outcome = Rejected(LoadError("model"))

\* C5: a 'ready' event is emitted only after the pipeline constructor has
\* completed without throwing; a finished pipeline() call for a registered
\* task that emitted 'ready' has constructed its pipeline and resolved.
C5_ReadyOnlyAfterConstruction ==
    (fpc = "done" /\ pipelineInfo.registered /\ ReadyEmitted) =>
        (ctor = "done" /\ outcome.state = "resolved")

\* What one step of pipeline() does to the loads.  The step that leaves the
\* start issues them, with the supplied model id or, when none is supplied,
\* the descriptor's default; no later step issues or re-targets a load.
LoadsIssuedTogether ==
    /\ (fpc = "start" /\ pipelineInfo'.registered) =>
          /\ NoLoadIssued
          /\ fpc' = "await"
          /\ \A k \in KindSet :
                /\ loadState'[k] = (IF pipelineInfo'[k] THEN "pending" ELSE "none")
                /\ loadModel'[k] =
                      (IF ~pipelineInfo'[k] THEN Null
                       ELSE IF model \in {Null, ""} THEN pipelineInfo'.default
                       ELSE model)
    /\ fpc # "start" =>
          /\ loadModel' = loadModel
          /\ \A k \in KindSet : loadState[k] = "none" <=> loadState'[k] = "none"

\* C19: within one pipeline() call a load is issued for exactly the kinds the
\* task descriptor declares, each with the same model id (the supplied one, or
\* the descriptor's default when none or an empty one is supplied), and all
\* of them are issued before the result of any of them is awaited.
C19_LoadsIssuedForDeclaredKinds == [][LoadsIssuedTogether]_vars

\* A call for image-to-text with no model id has its three loads pending,
\* all for the descriptor's default model.
C19_Witness ==
    /\ fpc = "await"
    /\ callTask = <<"image-to-text">>
    /\ \A k \in KindSet :
          loadState[k] = "pending" /\ loadModel[k] = "Xenova/vit-gpt2-image-captioning"

\* C20: in whatever order the loads complete, the constructor receives the
\* resolved task name (alias resolved, '_' suffix kept) and then the loaded
\* collaborators in the order tokenizer, model, processor with the kinds that
\* are not declared left out, and each collaborator lands in the constructor
\* parameter of its own kind.
C20_ConstructorArgumentsInOrder ==
    (ctor = "done" /\ pipelineInfo.registered) =>
        /\ instance.class = pipelineInfo.pipeline
        /\ instance.task = Str(ResolvedName)
        /\ promises = SelectSeq(<<"tokenizer", "model", "processor">>,
                                LAMBDA k : pipelineInfo[k])
        /\ \A k \in KindSet :
              IF pipelineInfo[k] THEN instance[k] = k
              ELSE instance[k] \in {"null", "undefined"}

\* An image-classification pipeline has been constructed from its model and
\* its processor, with no tokenizer.
C20_Witness ==
    /\ ctor = "done"
    /\ callTask = <<"image-classification">>
    /\ promises = <<"model", "processor">>
    /\ instance.class = "ImageClassificationPipeline"
    /\ instance.tokenizer = "null"
    /\ instance.model = "model"
    /\ instance.processor = "processor"

(***************************************************************************)
(* Numeric helpers shared by the decoders.                                 *)
(***************************************************************************)
RECURSIVE Pow2(_)
Pow2(n) == IF n <= 0 THEN 1 ELSE 2 * Pow2(n - 1)

RECURSIVE SumSeq(_)
SumSeq(s) == IF s = <<>> THEN 0 ELSE Head(s) + SumSeq(Tail(s))

MaxOf(s) == CHOOSE x \in {s[i] : i \in 1..Len(s)} : \A j \in 1..Len(s) : s[j] <= x
MinOf(s) == CHOOSE x \in {s[i] : i \in 1..Len(s)} : \A j \in 1..Len(s) : s[j] >= x

\* Exact comparison and product of probabilities <<numerator, denominator>>.
ScoreLess(a, b) == a[1] * b[2] < b[1] * a[2]
ScoreEq(a, b) == a[1] * b[2] = b[1] * a[2]
ScoreTimes(a, b) == <<a[1] * b[1], a[2] * b[2]>>

\* softmax of utils/maths.js: subtract the largest logit, exponentiate,
\* divide by the sum.  The exponential is taken to base 2 so that the
\* result is an exact fraction: numerator and denominator are both scaled
\* by 2^(max - min).
softmax(arr) ==
    LET hi == MaxOf(arr)
        scale == Pow2(hi - MinOf(arr))
        exps == [i \in 1..Len(arr) |-> scale \div Pow2(hi - arr[i])]
        total == SumSeq(exps)
    IN  [i \in 1..Len(arr) |-> <<exps[i], total>>]

RECURSIVE InsertByScore(_, _)
\* x placed after every element whose score is not smaller than its own.
InsertByScore(x, s) ==
    IF s = <<>> THEN <<x>>
    ELSE IF ScoreLess(Head(s).score, x.score) THEN <<x>> \o s
    ELSE <<Head(s)>> \o InsertByScore(x, Tail(s))

RECURSIVE SortByScoreDesc(_)
\* Array.prototype.sort((a, b) => b.score - a.score): descending and stable.
SortByScoreDesc(s) ==
    IF s = <<>> THEN <<>>
    ELSE InsertByScore(s[Len(s)], SortByScoreDesc(SubSeq(s, 1, Len(s) - 1)))

\* Array.prototype.slice(0, k)
SliceTo(s, k) == SubSeq(s, 1, IF k < Len(s) THEN k ELSE Len(s))

\* getTopItems of utils/maths.js: the top_k highest-scoring [index, score]
\* pairs, in descending score order, ties in index order.
getTopItems(items, top_k) ==
    SliceTo(SortByScoreDesc([i \in 1..Len(items) |-> [index |-> i, score |-> items[i]]]), top_k)

(***************************************************************************)
(* JavaScript result values.                                               *)
(***************************************************************************)
ArrayOf(xs) == [tag |-> "array", items |-> xs]
LabelScore(l, sc) == [tag |-> "object", label |-> l, score |-> sc]
JsUndefined == [tag |-> "undefined"]
NotReturned == [tag |-> "pending"]
IsArray(v) == v.tag = "array"

\* Array.prototype.flatMap / push(...vals) over a sequence of sequences
RECURSIVE Flatten(_)
Flatten(ss) == IF ss = <<>> THEN <<>> ELSE Head(ss) \o Flatten(Tail(ss))

\* this.model.config.id2label (source index i is index i + 1 here)
id2label(i) == <<"LABEL", i - 1>>

(***************************************************************************)
(* TextClassificationPipeline._call and ImageClassificationPipeline._call *)
(***************************************************************************)
ClassificationKinds == {"TextClassificationPipeline", "ImageClassificationPipeline"}

\* What the caller passes as input: one item, or an array of n items.
InputShapes ==
    {[isArray |-> FALSE, n |-> 1]} \cup {[isArray |-> TRUE, n |-> n] : n \in 1..MaxBatch}

TopkInputs == 1..MaxTopk
LogitValues == 0..MaxLogit

\* The logits a sequence-classification model may return for n inputs: one
\* vector per input, over the model's labels.
ClassificationOutputs(n) ==
    UNION {[1..n -> [1..nl -> LogitValues]] : nl \in 1..MaxLabels}

\* scores.map(x => ({label: id2label[x[0]], score: x[1]})) with the label
\* taken from the neighbouring index.
ClassificationValsShifted(scores) ==
    [i \in 1..Len(scores) |-> LabelScore(id2label(scores[i].index + 1), scores[i].score)]

\* scores.map(x => ({label: id2label[x[0]], score: x[1]}))
ClassificationVals(scores) ==
    [i \in 1..Len(scores) |-> LabelScore(id2label(scores[i].index), scores[i].score)]

\* A push that never spreads: toReturn.push(vals)
ClassificationPushNested(acc, vals, k) == Append(acc, ArrayOf(vals))

\* if (topk === 1) toReturn.push(...vals) else toReturn.push(vals)
ClassificationPush(acc, vals, k) ==
    IF k = 1 THEN acc \o vals ELSE Append(acc, ArrayOf(vals))

RECURSIVE ClassificationLoop(_, _, _)
\* for (let batch of outputs.logits) { ... }
ClassificationLoop(acc, logits, k) ==
    IF logits = <<>> THEN acc
    ELSE ClassificationLoop(
            ClassificationPush(acc,
                ClassificationVals(getTopItems(softmax(Head(logits)), k)), k),
            Tail(logits), k)

\* return Array.isArray(texts) || topk === 1 ? toReturn : toReturn[0]
ClassificationReturn(isArr, k, acc) ==
    IF isArr \/ k = 1 THEN ArrayOf(acc) ELSE acc[1]

\* The synchronous prefix of _call: tokenize (or prepare and process the
\* images) and call the model.
CallStart ==
    /\ cpc = "start"
    /\ cpc' = "model"
    /\ UNCHANGED <<kind, texts, topk, outputs, toReturn, result>>
    /\ UNCHANGED <<factoryVars, asrVars, optionVars, invocations>>

\* The model call resolves with logits for every item of the batch.
ClassificationModelReturns ==
    /\ cpc = "model" /\ kind \in ClassificationKinds
    /\ \E o \in ClassificationOutputs(texts.n) : outputs' = o
    /\ cpc' = "decode"
    /\ UNCHANGED <<kind, texts, topk, toReturn, result>>
    /\ UNCHANGED <<factoryVars, asrVars, optionVars, invocations>>

ClassificationDecode ==
    /\ cpc = "decode" /\ kind \in ClassificationKinds
    /\ toReturn' = ClassificationLoop(<<>>, outputs, topk)
    /\ result' = ClassificationReturn(texts.isArray, topk, toReturn')
    /\ cpc' = "done"
    /\ UNCHANGED <<kind, texts, topk, outputs>>
    /\ UNCHANGED <<factoryVars, asrVars, optionVars, invocations>>

InitClassify ==
    /\ cpc = "start"
    /\ kind \in ClassificationKinds
    /\ texts \in InputShapes
    /\ topk \in TopkInputs
    /\ outputs = <<>> /\ toReturn = <<>> /\ result = NotReturned
    /\ FactoryIdle /\ AsrIdle /\ OptionsIdle /\ InvocationsIdle

NextClassify == CallStart \/ ClassificationModelReturns \/ ClassificationDecode

SpecClassify == InitClassify /\ [][NextClassify]_vars

(***************************************************************************)
(* Claims about classification, checked under SpecClassify.                *)
(***************************************************************************)
ClassificationDone == cpc = "done" /\ kind \in ClassificationKinds

\* The (label, score) pairs the result holds for input b.
PairsOfInput(b) ==
    IF topk = 1 THEN <<result.items[b]>>
    ELSE IF texts.isArray THEN result.items[b].items
    ELSE result.items

\* C6: text and image classification with topk = 1 on B inputs returns a flat
\* list of B {label, score} records, the i-th one for the i-th input; with
\* topk = N > 1 on an array of B inputs it returns B nested lists, the i-th
\* holding min(N, number of labels) records of the i-th input.
C6_FlatForTop1NestedOtherwise ==
    ClassificationDone =>
        /\ topk = 1 =>
              /\ IsArray(result)
              /\ Len(result.items) = texts.n
              /\ \A i \in 1..texts.n :
                    /\ result.items[i].tag = "object"
                    /\ \E j \in 1..Len(outputs[i]) :
                          result.items[i] = LabelScore(id2label(j), softmax(outputs[i])[j])
        /\ (topk > 1 /\ texts.isArray) =>
              /\ IsArray(result)
              /\ Len(result.items) = texts.n
              /\ \A i \in 1..texts.n :
                    /\ IsArray(result.items[i])
                    /\ Len(result.items[i].items) =
                          (IF topk < Len(outputs[i]) THEN topk ELSE Len(outputs[i]))
                    /\ \A k \in 1..Len(result.items[i].items) :
                          /\ result.items[i].items[k].tag = "object"
                          /\ \E j \in 1..Len(outputs[i]) :
                                result.items[i].items[k] =
                                    LabelScore(id2label(j), softmax(outputs[i])[j])

\* An image batch of two inputs with different top labels, classified with
\* topk = 1.
C6_Witness ==
    /\ ClassificationDone
    /\ kind = "ImageClassificationPipeline"
    /\ texts = [isArray |-> TRUE, n |-> 2]
    /\ topk = 1
    /\ Len(result.items) = 2
    /\ result.items[1].label # result.items[2].label

\* C7: for every input and every topk = N not above the number of labels,
\* exactly N (label, score) pairs are returned for that input, in descending
\* score order, each pair being (id2label[i], softmax(logits)[i]) for an index i
\* of its own, and the first pair's score is at least the score of every label
\* that is not returned.
C7_TopNSortedLabelled ==
    ClassificationDone =>
        \A b \in 1..texts.n :
            LET nl == Len(outputs[b])
                sm == softmax(outputs[b])
                pairs == PairsOfInput(b)
            IN  topk <= nl =>
                  /\ Len(pairs) = topk
                  /\ \A k \in 1..(topk - 1) : ~ScoreLess(pairs[k].score, pairs[k + 1].score)
                  /\ \E idx \in [1..topk -> 1..nl] :
                        /\ \A k1, k2 \in 1..topk : idx[k1] = idx[k2] => k1 = k2
                        /\ \A k \in 1..topk :
                              pairs[k] = LabelScore(id2label(idx[k]), sm[idx[k]])
                        /\ \A j \in 1..nl :
                              (\A k \in 1..topk : idx[k] # j) =>
                                  ~ScoreLess(pairs[1].score, sm[j])

\* A single text whose second label outscores the first, classified with
\* topk = 2: the pairs come back reordered.
C7_Witness ==
    /\ ClassificationDone
    /\ kind = "TextClassificationPipeline"
    /\ ~texts.isArray
    /\ topk = 2
    /\ outputs = << <<0, 1>> >>
    /\ result = ArrayOf(<<LabelScore(id2label(2), <<2, 3>>), LabelScore(id2label(1), <<1, 3>>)>>)

(***************************************************************************)
(* QuestionAnsweringPipeline._call                                         *)
(***************************************************************************)
\* this.tokenizer.sep_token_id, and any other token id
SepToken == "[SEP]"
WordToken == "w"

\* A start or end logit is low or high.
QALogitValues == {0, 1}

\* What the tokenizer and the model yield for one (question, context) pair:
\* the input ids, in which the separator may stand anywhere, any number of
\* times or not at all, and a start and an end logit per position.
QAItems ==
    UNION {[ids : [1..len -> {SepToken, WordToken}],
            start_logits : [1..len -> QALogitValues],
            end_logits : [1..len -> QALogitValues]] : len \in 1..MaxSeqLen}

\* ids.indexOf(x): 0 stands for the source's -1, i for the source's i - 1.
IndexOf(ids, x) ==
    IF \E i \in 1..Len(ids) : ids[i] = x
    THEN CHOOSE i \in 1..Len(ids) : ids[i] = x /\ \A j \in 1..(i - 1) : ids[j] # x
    ELSE 0

\* product(a, b): a.flatMap(d => b.map(e => [d, e]))
product(a, b) ==
    [i \in 1..(Len(a) * Len(b)) |->
        <<a[((i - 1) \div Len(b)) + 1], b[((i - 1) % Len(b)) + 1]>>]

\* this.tokenizer.decode(tokens, {skip_special_tokens: true})
decode(tokens) == SelectSeq(tokens, LAMBDA t : t # SepToken)

\* Array.from(softmax(logits)).map((x, i) => [x, i]) with no filter at all
AfterSepUnfiltered(logits, sepIndex) ==
    [i \in 1..Len(logits) |-> [p |-> softmax(logits)[i], i |-> i]]

\* Array.from(softmax(logits)).map((x, i) => [x, i]).filter(x => x[1] > sepIndex)
AfterSep(logits, sepIndex) ==
    SelectSeq([i \in 1..Len(logits) |-> [p |-> softmax(logits)[i], i |-> i]],
              LAMBDA x : x.i > sepIndex)

\* The sorted candidate spans of one item (the local `options`).
QAOptions(item) ==
    LET sepIndex == IndexOf(item.ids, SepToken)
        s1 == AfterSep(item.start_logits, sepIndex)
        e1 == AfterSep(item.end_logits, sepIndex)
        valid == SelectSeq(product(s1, e1), LAMBDA x : x[1].i <= x[2].i)
    IN  SortByScoreDesc([k \in 1..Len(valid) |->
            [start |-> valid[k][1].i, end |-> valid[k][2].i,
             score |-> ScoreTimes(valid[k][1].p, valid[k][2].p)]])

\* The records one item adds to toReturn: {answer, score}.  item, start and
\* end are kept beside them to say which span the answer was decoded from; the
\* source drops them.
QAAnswers(item, j, k) ==
    LET options == QAOptions(item)
        count == IF Len(options) < k THEN Len(options) ELSE k
    IN  [c \in 1..count |->
            [tag |-> "object",
             answer |-> decode(SubSeq(item.ids, options[c].start, options[c].end)),
             score |-> options[c].score,
             item |-> j, start |-> options[c].start, end |-> options[c].end]]

\* return (topk === 1) ? toReturn[0] : toReturn
QAReturn(k, acc) ==
    IF k = 1 THEN (IF acc = <<>> THEN JsUndefined ELSE acc[1]) ELSE ArrayOf(acc)

\* The model call resolves.  An array input repeats one (question, context)
\* pair, for which the model returns the same rows.
QAModelReturns ==
    /\ cpc = "model" /\ kind = "QuestionAnsweringPipeline"
    /\ \E item \in QAItems : outputs' = [j \in 1..texts.n |-> item]
    /\ cpc' = "decode"
    /\ UNCHANGED <<kind, texts, topk, toReturn, result>>
    /\ UNCHANGED <<factoryVars, asrVars, optionVars, invocations>>

QADecode ==
    /\ cpc = "decode" /\ kind = "QuestionAnsweringPipeline"
    /\ toReturn' = Flatten([j \in 1..Len(outputs) |-> QAAnswers(outputs[j], j, topk)])
    /\ result' = QAReturn(topk, toReturn')
    /\ cpc' = "done"
    /\ UNCHANGED <<kind, texts, topk, outputs>>
    /\ UNCHANGED <<factoryVars, asrVars, optionVars, invocations>>

InitQA ==
    /\ cpc = "start"
    /\ kind = "QuestionAnsweringPipeline"
    /\ texts \in InputShapes
    /\ topk \in TopkInputs
    /\ outputs = <<>> /\ toReturn = <<>> /\ result = NotReturned
    /\ FactoryIdle /\ AsrIdle /\ OptionsIdle /\ InvocationsIdle

NextQA == CallStart \/ QAModelReturns \/ QADecode

SpecQA == InitQA /\ [][NextQA]_vars

(***************************************************************************)
(* Claims about question answering, checked under SpecQA.                  *)
(***************************************************************************)
QADone == cpc = "done" /\ kind = "QuestionAnsweringPipeline"

\* The (start, end) pairs of an item that lie after its first separator and
\* have start <= end.
ValidPairs(item) ==
    LET sep == IndexOf(item.ids, SepToken)
    IN  {se \in (1..Len(item.ids)) \X (1..Len(item.ids)) :
            se[1] > sep /\ se[2] > sep /\ se[1] <= se[2]}

\* The positions in toReturn of the spans emitted for item j.
EmittedFor(j) == {c \in 1..Len(toReturn) : toReturn[c].item = j}

\* C8: for every span the QA pipeline emits, start <= end, both indices are
\* valid and lie strictly after the first separator of the item's input ids,
\* the score is softmax(start_logits)[start] * softmax(end_logits)[end] and the
\* answer is decoded from ids[start..end]; the spans of one item are emitted
\* together, in non-increasing score order, without repetition, and there are
\* min(topk, number of valid pairs) of them.
C8_SpansValidScoredSorted ==
    QADone =>
        /\ \A c \in 1..Len(toReturn) :
              LET r == toReturn[c]
                  item == outputs[r.item]
              IN  /\ <<r.start, r.end>> \in ValidPairs(item)
                  /\ ScoreEq(r.score, ScoreTimes(softmax(item.start_logits)[r.start],
                                                 softmax(item.end_logits)[r.end]))
                  /\ r.answer = decode(SubSeq(item.ids, r.start, r.end))
        /\ \A c \in 1..(Len(toReturn) - 1) :
              /\ toReturn[c].item <= toReturn[c + 1].item
              /\ toReturn[c].item = toReturn[c + 1].item =>
                    ~ScoreLess(toReturn[c].score, toReturn[c + 1].score)
        /\ \A c, d \in 1..Len(toReturn) :
              (toReturn[c].item = toReturn[d].item /\ toReturn[c].start = toReturn[d].start
                  /\ toReturn[c].end = toReturn[d].end) => c = d
        /\ \A j \in 1..Len(outputs) :
              LET nValid == Cardinality(ValidPairs(outputs[j]))
              IN  Cardinality(EmittedFor(j)) = (IF topk < nValid THEN topk ELSE nValid)

\* A pair encoded as [SEP] w w with topk = 3: the three spans after the
\* separator are emitted, one of them longer than one token, the first with a
\* larger score than the last.
C8_Witness ==
    /\ QADone
    /\ topk = 3
    /\ outputs[1].ids = <<SepToken, WordToken, WordToken>>
    /\ Len(toReturn) = 3 * texts.n
    /\ \E c \in 1..3 : toReturn[c].start < toReturn[c].end
    /\ ScoreLess(toReturn[3].score, toReturn[1].score)

\* C9: every QA invocation with topk = 1, wherever the separator stands in
\* the encoded input, resolves to a single {answer, score} object.
C9_Top1ReturnsObject ==
    (QADone /\ topk = 1) => result.tag = "object"

(***************************************************************************)
(* Text2TextGenerationPipeline._call (and SummarizationPipeline)           *)
(***************************************************************************)
Text2TextKinds == {"Text2TextGenerationPipeline", "SummarizationPipeline"}

\* The field _key of the pipeline class ("null": no wrapping).
KeyOf(cls) == IF cls = "SummarizationPipeline" THEN "summary_text" ELSE "null"

\* The token sequences generate may return for one input.
GeneratedSequences == {<<"a">>, <<"a", "b">>}

\* this.tokenizer.batch_decode(outputTokenIds, {skip_special_tokens: true}),
\* then the wrapping of each text in {[this._key]: text}
Text2TextDecode(cls, outputTokenIds) ==
    [i \in 1..Len(outputTokenIds) |->
        IF KeyOf(cls) = "null"
        THEN [tag |-> "string", text |-> decode(outputTokenIds[i])]
        ELSE [tag |-> "object", key |-> KeyOf(cls), text |-> decode(outputTokenIds[i])]]

\* this.model.generate resolves with one list of sequences per input.
Text2TextModelReturns ==
    /\ cpc = "model" /\ kind \in Text2TextKinds
    /\ \E o \in [1..texts.n -> GeneratedSequences] :
          outputs' = [j \in 1..texts.n |-> <<o[j]>>]
    /\ cpc' = "decode"
    /\ UNCHANGED <<kind, texts, topk, toReturn, result>>
    /\ UNCHANGED <<factoryVars, asrVars, optionVars, invocations>>

\* outputTokenIds = (...).flat(); toReturn = batch_decode(...); return toReturn
Text2TextDecodeStep ==
    /\ cpc = "decode" /\ kind \in Text2TextKinds
    /\ toReturn' = Text2TextDecode(kind, Flatten(outputs))
    /\ result' = ArrayOf(toReturn')
    /\ cpc' = "done"
    /\ UNCHANGED <<kind, texts, topk, outputs>>
    /\ UNCHANGED <<factoryVars, asrVars, optionVars, invocations>>

InitText2Text ==
    /\ cpc = "start"
    /\ kind \in Text2TextKinds
    /\ texts \in InputShapes
    /\ topk = 1
    /\ outputs = <<>> /\ toReturn = <<>> /\ result = NotReturned
    /\ FactoryIdle /\ AsrIdle /\ OptionsIdle /\ InvocationsIdle

\* Any of the modelled task pipelines is called once.
InitCall == InitClassify \/ InitQA \/ InitText2Text

NextCall ==
    \/ CallStart
    \/ ClassificationModelReturns
    \/ ClassificationDecode
    \/ QAModelReturns
    \/ QADecode
    \/ Text2TextModelReturns
    \/ Text2TextDecodeStep

SpecCall == InitCall /\ [][NextCall]_vars

(***************************************************************************)
(* Claims about every task pipeline, checked under SpecCall.               *)
(***************************************************************************)
\* Whether v is the result of one item: one record (or text) when one is asked
\* for, the item's list of records when topk > 1.
IsItemResult(v) ==
    IF kind \in Text2TextKinds \/ topk = 1
    THEN v.tag \in {"object", "string"}
    ELSE IsArray(v) /\ \A i \in 1..Len(v.items) : v.items[i].tag = "object"

\* C1: for every task pipeline and every topk, a single non-array input
\* resolves to the result of that one item, not wrapped in a per-input
\* sequence, and an array of n inputs resolves to a sequence of exactly n
\* per-input results.
C1_CardinalityPreserved ==
    cpc = "done" =>
        IF texts.isArray
        THEN /\ IsArray(result)
             /\ Len(result.items) = texts.n
             /\ \A i \in 1..texts.n : IsItemResult(result.items[i])
        ELSE IsItemResult(result)

(***************************************************************************)
(* AutomaticSpeechRecognitionPipeline._call                                *)
(*                                                                         *)
(* chunk_length_s is a whole number of seconds and stride_length_s a whole *)
(* number of sixths of a second (the default stride is chunk_length_s / 6);*)
(* the sampling rate is a multiple of 6, so that window, stride and jump   *)
(* are whole numbers of samples.  A quantity that the code converts        *)
(* between samples and seconds is the exact fraction <<n, d>>.  The option *)
(* stride_length_s is <<>> when it is null and <<k>> when it is k sixths.  *)
(***************************************************************************)
\* this.processor.feature_extractor.config.sampling_rate
sampling_rate == 6

ClipLengths == 0..MaxClip
ChunkLengthInputs == 0..MaxChunkLen
StrideLengthInputs == {<<>>} \cup {<<k>> : k \in 0..MaxStride}

\* const window = sampling_rate * chunk_length_s
WindowOf(c) == sampling_rate * c
\* const stride = sampling_rate * stride_length_s
StrideOf(k) == (sampling_rate * k) \div 6
\* const jump = window - 2 * stride
JumpOf(c, k) == WindowOf(c) - 2 * StrideOf(k)

\* TypedArray.prototype.subarray(begin, end) on an array of len elements: a
\* negative index counts from the end, both are clamped to [0, len].
Subarray(len, begin, end) ==
    LET Clamp(i) == IF i < 0 THEN (IF len + i < 0 THEN 0 ELSE len + i)
                    ELSE (IF i > len THEN len ELSE i)
        b == Clamp(begin)
        e == Clamp(end)
    IN  [begin |-> b, end |-> e, length |-> IF e > b THEN e - b ELSE 0]

InSamples(n) == <<n, 1>>
\* A conversion that leaves the value in samples.
StillInSamples(x) == x

\* x / sampling_rate
ToSeconds(x) == <<x[1], x[2] * sampling_rate>>

Call(op, c, st) == [op |-> op, chunk |-> c, stride |-> st]

\* A validation that lets a stride equal to the chunk length through.
StrideRejectedStrict(c, k) == 6 * c < k

\* chunk_length_s <= stride_length_s, for c seconds and k sixths of a second
StrideRejected(c, k) == 6 * c <= k

\* The synchronous prefix of _call: the options, this._preprocess, and for
\* chunk_length_s > 0 the default and the validation of stride_length_s.
AsrStart ==
    /\ apc = "start"
    /\ IF chunk_length_s > 0
       THEN IF stride_length_s = <<>>
            THEN stride_length_s' = <<chunk_length_s>> /\ apc' = "chunking"
            ELSE IF StrideRejected(chunk_length_s, stride_length_s[1])
            THEN stride_length_s' = stride_length_s /\ apc' = "threw"
            ELSE stride_length_s' = stride_length_s /\ apc' = "chunking"
       ELSE stride_length_s' = stride_length_s /\ apc' = "whole"
    /\ offset' = 0
    /\ UNCHANGED <<aud, chunk_length_s, chunk_callback, chunks, generated, trace>>
    /\ UNCHANGED <<factoryVars, callVars, optionVars, invocations>>

\* A chunk whose left overlap is the stride even at offset 0.
NewChunkLeftAlways(len, off, c, k) ==
    LET sub == Subarray(len, off, off + WindowOf(c))
        isLast == off + JumpOf(c, k) >= len
    IN  [stride |-> <<InSamples(sub.length), InSamples(StrideOf(k)),
                      InSamples(IF isLast THEN 0 ELSE StrideOf(k))>>,
         is_last |-> isLast, offset |-> off, begin |-> sub.begin, end |-> sub.end,
         tokens |-> <<>>]

\* A chunk that is never flagged as the last one.
NewChunkNeverLast(len, off, c, k) ==
    LET sub == Subarray(len, off, off + WindowOf(c))
        isFirst == off = 0
        isLast == off + JumpOf(c, k) >= len
    IN  [stride |-> <<InSamples(sub.length),
                      InSamples(IF isFirst THEN 0 ELSE StrideOf(k)),
                      InSamples(IF isLast THEN 0 ELSE StrideOf(k))>>,
         is_last |-> FALSE, offset |-> off, begin |-> sub.begin, end |-> sub.end,
         tokens |-> <<>>]

\* The chunk one iteration of the windowing loop pushes.  offset, begin and
\* end say which samples the features were extracted from.
NewChunk(len, off, c, k) ==
    LET sub == Subarray(len, off, off + WindowOf(c))
        isFirst == off = 0
        isLast == off + JumpOf(c, k) >= len
    IN  [stride |-> <<InSamples(sub.length),
                      InSamples(IF isFirst THEN 0 ELSE StrideOf(k)),
                      InSamples(IF isLast THEN 0 ELSE StrideOf(k))>>,
         is_last |-> isLast, offset |-> off, begin |-> sub.begin, end |-> sub.end,
         tokens |-> <<>>]

\* One iteration of `while (offset < aud.length)`.
AsrChunk ==
    /\ apc = "chunking"
    /\ offset < aud
    /\ Len(chunks) < MaxChunks
    /\ trace' = Append(trace, Call("processor", Len(chunks) + 1, <<>>))
    /\ chunks' = Append(chunks, NewChunk(aud, offset, chunk_length_s, stride_length_s[1]))
    /\ offset' = offset + JumpOf(chunk_length_s, stride_length_s[1])
    /\ UNCHANGED <<apc, aud, chunk_length_s, stride_length_s, chunk_callback, generated>>
    /\ UNCHANGED <<factoryVars, callVars, optionVars, invocations>>

\* The loop condition fails: on to generation.
AsrChunkingDone ==
    /\ apc = "chunking"
    /\ ~(offset < aud)
    /\ apc' = "generate"
    /\ UNCHANGED <<aud, chunk_length_s, stride_length_s, chunk_callback, offset, chunks,
                   generated, trace>>
    /\ UNCHANGED <<factoryVars, callVars, optionVars, invocations>>

\* chunk_length_s = 0: one chunk for the whole clip.
AsrWhole ==
    /\ apc = "whole"
    /\ trace' = Append(trace, Call("processor", 1, <<>>))
    /\ chunks' = <<[stride |-> <<InSamples(aud), InSamples(0), InSamples(0)>>,
                    is_last |-> TRUE, offset |-> 0, begin |-> 0, end |-> aud,
                    tokens |-> <<>>]>>
    /\ apc' = "generate"
    /\ UNCHANGED <<aud, chunk_length_s, stride_length_s, chunk_callback, offset, generated>>
    /\ UNCHANGED <<factoryVars, callVars, optionVars, invocations>>

\* this.model.generate(chunk.input_features, kwargs) is called for the next chunk.
AsrGenerateCall ==
    /\ apc = "generate"
    /\ generated < Len(chunks)
    /\ trace' = Append(trace, Call("generate", generated + 1, chunks[generated + 1].stride))
    /\ apc' = "generating"
    /\ UNCHANGED <<aud, chunk_length_s, stride_length_s, chunk_callback, offset, chunks,
                   generated>>
    /\ UNCHANGED <<factoryVars, callVars, optionVars, invocations>>

\* The callback called before the stride is converted and the call recorded
\* as resolved.
ChunkEventsCallbackFirst(cb, g, converted) ==
    IF cb THEN <<Call("callback", g, converted), Call("resolved", g, <<>>)>>
    ELSE <<Call("resolved", g, <<>>)>>

\* What the continuation of one generate call does, in order: the call has
\* resolved; if (chunk_callback !== null) chunk_callback(chunk).
ChunkEvents(cb, g, converted) ==
    IF cb THEN <<Call("resolved", g, <<>>), Call("callback", g, converted)>>
    ELSE <<Call("resolved", g, <<>>)>>

\* generate resolves: the tokens are stored, the stride is converted to
\* seconds, and chunk_callback, when given, is called with the chunk.
AsrGenerateDone ==
    /\ apc = "generating"
    /\ LET g == generated + 1
           converted == [i \in 1..3 |-> ToSeconds(chunks[g].stride[i])]
       IN  /\ chunks' = [chunks EXCEPT ![g].tokens = <<"token">>, ![g].stride = converted]
           /\ trace' = trace \o ChunkEvents(chunk_callback, g, converted)
           /\ generated' = g
    /\ apc' = "generate"
    /\ UNCHANGED <<aud, chunk_length_s, stride_length_s, chunk_callback, offset>>
    /\ UNCHANGED <<factoryVars, callVars, optionVars, invocations>>

\* this.tokenizer._decode_asr(chunks, ...) merges the chunks; _call returns.
AsrMerge ==
    /\ apc = "generate"
    /\ generated = Len(chunks)
    /\ trace' = Append(trace, Call("merge", Len(chunks), <<>>))
    /\ apc' = "done"
    /\ UNCHANGED <<aud, chunk_length_s, stride_length_s, chunk_callback, offset, chunks,
                   generated>>
    /\ UNCHANGED <<factoryVars, callVars, optionVars, invocations>>

InitASR ==
    /\ apc = "start"
    /\ aud \in ClipLengths
    /\ chunk_length_s \in ChunkLengthInputs
    /\ stride_length_s \in StrideLengthInputs
    /\ chunk_callback \in BOOLEAN
    /\ offset = 0 /\ chunks = <<>> /\ generated = 0 /\ trace = <<>>
    /\ FactoryIdle /\ CallIdle /\ OptionsIdle /\ InvocationsIdle

NextASR ==
    \/ AsrStart
    \/ AsrChunk
    \/ AsrChunkingDone
    \/ AsrWhole
    \/ AsrGenerateCall
    \/ AsrGenerateDone
    \/ AsrMerge

SpecASR == InitASR /\ [][NextASR]_vars

(***************************************************************************)
(* Claims about speech recognition, checked under SpecASR.                 *)
(***************************************************************************)
\* The stride was accepted: none was given, or it is smaller than the chunk.
StrideAccepted == apc \notin {"start", "threw", "idle"}

\* C10: with chunk_length_s > 0 and any accepted stride, a clip whose sample
\* count is positive and smaller than sampling_rate * chunk_length_s yields
\* exactly one chunk, whose stride triple is [clip length, 0, 0].  Stated
\* here for the strides that leave a positive jump, for which the windowing
\* loop ends.
C10_ShortClipOneChunk ==
    (/\ StrideAccepted /\ chunk_length_s > 0 /\ 0 < aud /\ aud < WindowOf(chunk_length_s)
     /\ JumpOf(chunk_length_s, stride_length_s[1]) > 0) =>
        /\ Len(chunks) <= 1
        /\ (Len(chunks) = 1 /\ generated = 0) =>
              chunks[1].stride = <<InSamples(aud), InSamples(0), InSamples(0)>>
        /\ apc \in {"generate", "generating", "done"} => Len(chunks) = 1

\* The windowing loop has ended and no stride has been converted to seconds.
ChunkingEnded == apc = "generate" /\ generated = 0

\* The samples chunk ch keeps: [offset + left, offset + total - right).
KeptRegion(ch) ==
    {i \in 0..(aud - 1) :
        /\ ch.offset + ch.stride[2][1] <= i
        /\ i < ch.offset + ch.stride[1][1] - ch.stride[3][1]}

\* C11: with chunk_length_s > 0 and any accepted stride, every sample index
\* of the clip lies in the kept region [offset + left, offset + total - right)
\* of at least one produced chunk.  Stated for the strides that leave a
\* positive jump, for which the windowing loop ends.
C11_NoSampleDropped ==
    (ChunkingEnded /\ chunk_length_s > 0 /\ JumpOf(chunk_length_s, stride_length_s[1]) > 0) =>
        \A i \in 0..(aud - 1) : \E c \in 1..Len(chunks) : i \in KeptRegion(chunks[c])

CandidateLabel(i) == <<"candidate", i>>

\* The candidate_labels argument, after `candidate_labels = [candidate_labels]`
\* for a single label.
CandidateLabelInputs ==
    {[i \in 1..n |-> CandidateLabel(i)] : n \in 1..MaxLabels}

\* outputs.logits.data at this.contradiction_id and this.entailment_id.
NliOutputs == [contradiction : LogitValues, entailment : LogitValues]

\* let softmaxEach = multi_label || candidate_labels.length === 1
SoftmaxEach(multi, labels) == multi \/ Len(labels) = 1

\* What one model output adds to entails_logits.
EntailsEntry(each, o) ==
    IF each THEN <<o.contradiction, o.entailment>> ELSE <<o.entailment>>

\* scores = softmaxEach ? entails_logits.map(x => softmax(x)[1]) : softmax(entails_logits)
ZeroShotScores(each, logits) ==
    IF each THEN [i \in 1..Len(logits) |-> softmax(logits[i])[2]]
    ELSE softmax([i \in 1..Len(logits) |-> logits[i][1]])

\* scores.map((x, i) => [x, i]).sort((a, b) => b[0] - a[0])
ScoresSorted(scores) ==
    SortByScoreDesc([i \in 1..Len(scores) |-> [score |-> scores[i], index |-> i]])

\* Labels left in the order the caller gave them.
ZeroShotLabelsUnsorted(scores_sorted, labels) == labels

\* scores_sorted.map(x => candidate_labels[x[1]])
ZeroShotLabels(scores_sorted, labels) ==
    [k \in 1..Len(scores_sorted) |-> labels[scores_sorted[k].index]]

\* The record pushed for one premise: {sequence, labels, scores}.
ZeroShotEntry(premise, each, logits, labels) ==
    LET scores_sorted == ScoresSorted(ZeroShotScores(each, logits))
    IN  [tag |-> "object", sequence |-> premise,
         labels |-> ZeroShotLabels(scores_sorted, labels),
         scores |-> [k \in 1..Len(scores_sorted) |-> scores_sorted[k].score]]

\* The synchronous prefix of _call, up to the first `await this.model(inputs)`.
ZeroShotStart ==
    /\ cpc = "start" /\ kind = "ZeroShotClassificationPipeline"
    /\ cpc' = "model"
    /\ calls' = Append(calls, [op |-> "tokenizer", premise |-> 1, hypothesis |-> 1])
    /\ UNCHANGED <<kind, texts, topk, outputs, toReturn, result>>
    /\ UNCHANGED <<candidate_labels, multi_label, entails_logits, subtask, fn,
                   feature_extractor, error>>
    /\ UNCHANGED <<factoryVars, asrVars, invocations>>

\* `await this.model(inputs)` resolves for the next hypothesis; after the
\* last hypothesis of a premise its record is pushed, and after the last
\* premise _call returns.
ZeroShotModelReturns ==
    /\ cpc = "model" /\ kind = "ZeroShotClassificationPipeline"
    /\ LET premise == Len(toReturn) + 1
           hypothesis == Len(entails_logits) + 1
           each == SoftmaxEach(multi_label, candidate_labels)
       IN  \E o \in NliOutputs :
             /\ premise > 1 => o = outputs[hypothesis]
             /\ outputs' = IF premise = 1 THEN Append(outputs, o) ELSE outputs
             /\ LET logits == Append(entails_logits, EntailsEntry(each, o))
                IN  IF Len(logits) < Len(candidate_labels)
                    THEN /\ entails_logits' = logits
                         /\ calls' = Append(calls, [op |-> "tokenizer", premise |-> premise,
                                                    hypothesis |-> hypothesis + 1])
                         /\ UNCHANGED <<cpc, toReturn, result>>
                    ELSE /\ entails_logits' = <<>>
                         /\ toReturn' = Append(toReturn,
                                           ZeroShotEntry(premise, each, logits, candidate_labels))
                         /\ IF premise < texts.n
                            THEN /\ cpc' = "model"
                                 /\ calls' = Append(calls, [op |-> "tokenizer",
                                                 premise |-> premise + 1, hypothesis |-> 1])
                                 /\ UNCHANGED result
                            ELSE /\ cpc' = "done"
                                 /\ calls' = calls
                                 /\ result' = IF texts.isArray THEN ArrayOf(toReturn')
                                              ELSE toReturn'[1]
    /\ UNCHANGED <<kind, texts, topk>>
    /\ UNCHANGED <<candidate_labels, multi_label, subtask, fn, feature_extractor, error>>
    /\ UNCHANGED <<factoryVars, asrVars, invocations>>

InitZeroShot ==
    /\ cpc = "start"
    /\ kind = "ZeroShotClassificationPipeline"
    /\ texts \in InputShapes
    /\ candidate_labels \in CandidateLabelInputs
    /\ multi_label \in BOOLEAN
    /\ topk = 0 /\ outputs = <<>> /\ toReturn = <<>> /\ result = NotReturned
    /\ entails_logits = <<>> /\ subtask = Null /\ fn = [t |-> "null", name |-> "none"]
    /\ feature_extractor = {} /\ calls = <<>> /\ error = NoError
    /\ FactoryIdle /\ AsrIdle /\ InvocationsIdle

NextZeroShot == ZeroShotStart \/ ZeroShotModelReturns

SpecZeroShot == InitZeroShot /\ [][NextZeroShot]_vars

(***************************************************************************)
(* Claims about zero-shot classification, checked under SpecZeroShot.      *)
(***************************************************************************)
RECURSIVE SumScores(_)
\* The exact sum of a sequence of fractions.
SumScores(s) ==
    IF s = <<>> THEN <<0, 1>>
    ELSE LET rest == SumScores(Tail(s))
         IN  <<Head(s)[1] * rest[2] + rest[1] * Head(s)[2], Head(s)[2] * rest[2]>>

\* C13: with multi_label = false and any number of candidate labels >= 1,
\* the scores returned for each sequence sum to 1.
C13_ScoresSumToOne ==
    (kind = "ZeroShotClassificationPipeline" /\ ~multi_label) =>
        \A p \in 1..Len(toReturn) : ScoreEq(SumScores(toReturn[p].scores), <<1, 1>>)

\* The score the code computes for the i-th candidate label of a premise.
ScoreOfLabel(i) ==
    ZeroShotScores(SoftmaxEach(multi_label, candidate_labels),
                   [h \in 1..Len(candidate_labels) |->
                       EntailsEntry(SoftmaxEach(multi_label, candidate_labels), outputs[h])])[i]

\* C14: for every premise, the returned labels are a permutation of the
\* candidate labels, the scores are in non-increasing order, and scores[k] is
\* the score computed for labels[k].
C14_LabelsPermutedScoresPaired ==
    kind = "ZeroShotClassificationPipeline" =>
        \A p \in 1..Len(toReturn) :
            LET r == toReturn[p]
                n == Len(candidate_labels)
            IN  /\ Len(r.labels) = n /\ Len(r.scores) = n
                /\ \A i \in 1..n : \E k \in 1..n : r.labels[k] = candidate_labels[i]
                /\ \A k1, k2 \in 1..n : r.labels[k1] = r.labels[k2] => k1 = k2
                /\ \A k \in 1..(n - 1) : ~ScoreLess(r.scores[k], r.scores[k + 1])
                /\ \A k \in 1..n : \A i \in 1..n :
                      r.labels[k] = candidate_labels[i] => r.scores[k] = ScoreOfLabel(i)

\* Two candidate labels of which the second scores higher: the returned
\* labels are the candidates in reverse.
C14_Witness ==
    /\ kind = "ZeroShotClassificationPipeline"
    /\ cpc = "done"
    /\ Len(candidate_labels) = 2
    /\ result.tag = "object"
    /\ result.labels = <<CandidateLabel(2), CandidateLabel(1)>>
    /\ ScoreLess(result.scores[2], result.scores[1])

(***************************************************************************)
(* ImageSegmentationPipeline._call and ObjectDetectionPipeline._call       *)
(*                                                                         *)
(* texts holds the shape of the `images` argument.                         *)
(***************************************************************************)
ImageKinds == {"ImageSegmentationPipeline", "ObjectDetectionPipeline"}

\* The images argument: one image, or an array of n images, n = 0 included.
ImageShapes ==
    {[isArray |-> FALSE, n |-> 1]} \cup {[isArray |-> TRUE, n |-> n] : n \in 0..MaxBatch}

\* Object.entries(this.subtasks_mapping), in insertion order.
subtasks_mapping ==
    << [task |-> "panoptic", func |-> "post_process_panoptic_segmentation"],
       [task |-> "instance", func |-> "post_process_instance_segmentation"],
       [task |-> "semantic", func |-> "post_process_semantic_segmentation"] >>

\* The subtask option: null, a mapped name, or a name that is not mapped.
SubtaskInputs == {Null, "panoptic", "instance", "semantic", "depth"}

\* The post-processing functions a feature extractor may have.
FeatureExtractors == SUBSET {subtasks_mapping[i].func : i \in 1..Len(subtasks_mapping)}

\* The values of the local `fn`.
FnNull == [t |-> "null", name |-> "none"]
FnUndefined == [t |-> "undefined", name |-> "none"]
FnString(name) == [t |-> "string", name |-> name]
FnBound(name) == [t |-> "function", name |-> name]

\* A batch check that lets the empty array through.
BatchRejectedAboveOne(isBatched, n) == isBatched /\ n > 1

\* isBatched && images.length !== 1
BatchRejected(isBatched, n) == isBatched /\ n # 1

\* Error("<pipeline> currently only supports a batch size of 1.")
BatchSizeError(cls) ==
    [name |-> "currently only supports a batch size of 1", task |-> <<>>, keys |-> <<>>,
     from |-> cls]
\* Error(`semantic segmentation not yet supported.`)
SemanticError ==
    [name |-> "semantic segmentation not yet supported", task |-> <<>>, keys |-> <<>>,
     from |-> "ImageSegmentationPipeline"]
\* Error(`Subtask ${subtask} not supported.`)
SubtaskError(st) ==
    [name |-> "Subtask not supported", task |-> <<st>>, keys |-> <<>>,
     from |-> "ImageSegmentationPipeline"]

\* lines 1003-1014: fn and subtask after the selection.  An explicit subtask
\* reads the mapping, which holds the function's name; a null subtask probes
\* the feature extractor in the mapping's order and binds the first function
\* it has.
SelectFn(st, fe) ==
    LET mapped == {i \in 1..Len(subtasks_mapping) : subtasks_mapping[i].task = st}
        present == {i \in 1..Len(subtasks_mapping) : subtasks_mapping[i].func \in fe}
        first == CHOOSE i \in present : \A j \in present : i <= j
    IN  IF st # Null
        THEN [fn |-> IF mapped = {} THEN FnUndefined
                     ELSE FnString(subtasks_mapping[CHOOSE i \in mapped : TRUE].func),
              subtask |-> st]
        ELSE IF present = {} THEN [fn |-> FnNull, subtask |-> Null]
        ELSE [fn |-> FnBound(subtasks_mapping[first].func),
              subtask |-> subtasks_mapping[first].task]

\* A branch selection that treats semantic like panoptic and instance.
SubtaskBranchLenient(st) ==
    IF st \in {"panoptic", "instance", "semantic"} THEN "annotate" ELSE "unsupported"

\* The branch of lines 1019-1055 the effective subtask selects.
SubtaskBranch(st) ==
    IF st = "panoptic" \/ st = "instance" THEN "annotate"
    ELSE IF st = "semantic" THEN "semantic"
    ELSE "unsupported"

\* What a post-processing function may return as processed.segments_info.
SegmentsInfo ==
    {<<>>,
     <<[id |-> 1, label_id |-> 1, score |-> <<1, 2>>]>>,
     <<[id |-> 1, label_id |-> 2, score |-> <<3, 4>>],
       [id |-> 2, label_id |-> 1, score |-> <<1, 4>>]>>}

\* annotation.push({score, label: id2label[segment.label_id], mask})
Annotation(segments_info) ==
    [i \in 1..Len(segments_info) |->
        [tag |-> "object", score |-> segments_info[i].score,
         label |-> id2label(segments_info[i].label_id), mask |-> segments_info[i].id]]

\* The synchronous prefix of both _call methods: the batch-size check, then
\* prepareImages is called.
ImageCallStart ==
    /\ cpc = "start" /\ kind \in ImageKinds
    /\ IF BatchRejected(texts.isArray, texts.n)
       THEN /\ error' = BatchSizeError(kind)
            /\ cpc' = "threw"
            /\ calls' = calls
       ELSE /\ error' = error
            /\ cpc' = "prepareImages"
            /\ calls' = Append(calls, "prepareImages")
    /\ UNCHANGED <<kind, texts, topk, outputs, toReturn, result>>
    /\ UNCHANGED <<candidate_labels, multi_label, entails_logits, subtask, fn,
                   feature_extractor>>
    /\ UNCHANGED <<factoryVars, asrVars, invocations>>

\* prepareImages resolves; this.processor(images) is called.
ImagePrepared ==
    /\ cpc = "prepareImages"
    /\ cpc' = "processor"
    /\ calls' = Append(calls, "processor")
    /\ UNCHANGED <<kind, texts, topk, outputs, toReturn, result>>
    /\ UNCHANGED <<candidate_labels, multi_label, entails_logits, subtask, fn,
                   feature_extractor, error>>
    /\ UNCHANGED <<factoryVars, asrVars, invocations>>

\* The processor resolves; this.model(inputs) is called.
ImageProcessed ==
    /\ cpc = "processor"
    /\ cpc' = "model"
    /\ calls' = Append(calls, "model")
    /\ UNCHANGED <<kind, texts, topk, outputs, toReturn, result>>
    /\ UNCHANGED <<candidate_labels, multi_label, entails_logits, subtask, fn,
                   feature_extractor, error>>
    /\ UNCHANGED <<factoryVars, asrVars, invocations>>

\* The model resolves: the rest of ImageSegmentationPipeline._call.
SegmentationModelReturns ==
    /\ cpc = "model" /\ kind = "ImageSegmentationPipeline"
    /\ LET sel == SelectFn(subtask, feature_extractor)
           branch == SubtaskBranch(sel.subtask)
       IN  /\ fn' = sel.fn
           /\ subtask' = sel.subtask
           /\ IF branch = "annotate" /\ sel.fn.t = "function"
              THEN \E segments_info \in SegmentsInfo :
                     /\ calls' = Append(calls, sel.fn.name)
                     /\ outputs' = segments_info
                     /\ toReturn' = Annotation(segments_info)
                     /\ result' = ArrayOf(toReturn')
                     /\ error' = error
                     /\ cpc' = "done"
              ELSE /\ error' = IF branch = "annotate" THEN TypeError("fn is not a function")
                               ELSE IF branch = "semantic" THEN SemanticError
                               ELSE SubtaskError(sel.subtask)
                   /\ cpc' = "threw"
                   /\ UNCHANGED <<calls, outputs, toReturn, result>>
    /\ UNCHANGED <<kind, texts, topk>>
    /\ UNCHANGED <<candidate_labels, multi_label, entails_logits, feature_extractor>>
    /\ UNCHANGED <<factoryVars, asrVars, invocations>>

\* What post_process_object_detection may return for the one image: its classes.
DetectedClasses == {<<>>, <<1>>, <<2, 1>>}

\* The model resolves: the rest of ObjectDetectionPipeline._call.
DetectionModelReturns ==
    /\ cpc = "model" /\ kind = "ObjectDetectionPipeline"
    /\ \E classes \in DetectedClasses :
         /\ outputs' = <<classes>>
         /\ toReturn' = <<[tag |-> "object", classes |-> classes,
                           labels |-> [i \in 1..Len(classes) |-> id2label(classes[i])]]>>
         /\ result' = IF texts.isArray THEN ArrayOf(toReturn') ELSE toReturn'[1]
    /\ calls' = Append(calls, "post_process_object_detection")
    /\ cpc' = "done"
    /\ UNCHANGED <<kind, texts, topk>>
    /\ UNCHANGED <<candidate_labels, multi_label, entails_logits, subtask, fn,
                   feature_extractor, error>>
    /\ UNCHANGED <<factoryVars, asrVars, invocations>>

InitImage ==
    /\ cpc = "start"
    /\ kind \in ImageKinds
    /\ texts \in ImageShapes
    /\ IF kind = "ImageSegmentationPipeline"
       THEN subtask \in SubtaskInputs /\ feature_extractor \in FeatureExtractors
       ELSE subtask = Null /\ feature_extractor = {}
    /\ fn = FnNull
    /\ topk = 0 /\ outputs = <<>> /\ toReturn = <<>> /\ result = NotReturned
    /\ candidate_labels = <<>> /\ multi_label = FALSE /\ entails_logits = <<>>
    /\ calls = <<>> /\ error = NoError
    /\ FactoryIdle /\ AsrIdle /\ InvocationsIdle

NextImage ==
    \/ ImageCallStart
    \/ ImagePrepared
    \/ ImageProcessed
    \/ SegmentationModelReturns
    \/ DetectionModelReturns

SpecImage == InitImage /\ [][NextImage]_vars

(***************************************************************************)
(* Claims about the image pipelines, checked under SpecImage.              *)
(***************************************************************************)
\* A segmentation call has settled after passing the batch-size check.
SegmentationSettled ==
    /\ kind = "ImageSegmentationPipeline"
    /\ cpc \in {"done", "threw"}
    /\ ~BatchRejected(texts.isArray, texts.n)

\* The caller gave the subtask: fn was read from the mapping, not bound.
SubtaskGiven == fn.t \in {"string", "undefined"}

\* The mapped function name of a subtask name.
FuncOf(st) ==
    subtasks_mapping[CHOOSE i \in 1..Len(subtasks_mapping) : subtasks_mapping[i].task = st].func

\* C15: segmentation with the explicit subtask 'panoptic' or 'instance' calls
\* the processor's corresponding post-processing function and returns its
\* annotated segments; with no subtask given, the effective subtask is the
\* first of panoptic, instance, semantic whose function the processor has.
C15_PostProcessingSelected ==
    SegmentationSettled =>
        /\ (SubtaskGiven /\ subtask \in {"panoptic", "instance"}) =>
              /\ cpc = "done"
              /\ calls[Len(calls)] = FuncOf(subtask)
              /\ result = ArrayOf(Annotation(outputs))
        /\ (~SubtaskGiven /\ subtask # Null) =>
              /\ FuncOf(subtask) \in feature_extractor
              /\ \A i, j \in 1..Len(subtasks_mapping) :
                    (subtasks_mapping[j].task = subtask /\ i < j) =>
                        subtasks_mapping[i].func \notin feature_extractor

\* C16: segmentation and detection called with an array whose length is not 1
\* throw the batch-size error before prepareImages, the processor or the
\* model is called; one image or an array of one image passes the check.
C16_BatchSizeValidatedFirst ==
    (kind \in ImageKinds /\ cpc # "start") =>
        IF texts.isArray /\ texts.n # 1
        THEN /\ cpc = "threw"
             /\ error = BatchSizeError(kind)
             /\ calls = <<>>
             /\ result = NotReturned
        ELSE /\ error # BatchSizeError(kind)
             /\ calls # <<>> /\ calls[1] = "prepareImages"

\* An empty array was given to the detection pipeline, which has thrown.
C16_Witness ==
    /\ kind = "ObjectDetectionPipeline"
    /\ texts = [isArray |-> TRUE, n |-> 0]
    /\ cpc = "threw"

\* C17: segmentation whose effective subtask is 'semantic', a name that is
\* not recognised, or unresolved (none given and the processor has none of the
\* three functions) throws a 'not supported' error and returns no annotation
\* list.
C17_UnsupportedSubtaskThrows ==
    (SegmentationSettled /\ subtask \notin {"panoptic", "instance"}) =>
        /\ cpc = "threw"
        /\ error \in {SemanticError, SubtaskError(subtask)}
        /\ subtask = "semantic" <=> error = SemanticError
        /\ result = NotReturned
        /\ toReturn = <<>>

\* No subtask was given and the processor only has the semantic function:
\* the probe settles on semantic and the call has thrown.
C17_Witness ==
    /\ SegmentationSettled
    /\ ~SubtaskGiven
    /\ feature_extractor = {"post_process_semantic_segmentation"}
    /\ subtask = "semantic"
    /\ fn = FnBound("post_process_semantic_segmentation")
    /\ error = SemanticError

(***************************************************************************)
(* FillMaskPipeline._call                                                  *)
(*                                                                         *)
(* A token id is written as its token string; the vocabulary has two       *)
(* tokens, token id i being Vocab[i].                                      *)
(***************************************************************************)
\* this.tokenizer.mask_token_id
MaskToken == "[MASK]"

\* tokenizer.model.vocab
Vocab == <<"a", "b">>

\* The encodings of one input text: with no mask token, with one, with two.
FillMaskIds ==
    {<<WordToken>>, <<MaskToken>>, <<WordToken, MaskToken>>, <<WordToken, WordToken>>,
     <<MaskToken, WordToken, MaskToken>>}

\* The rows of logits over the vocabulary the model may return for a position.
FillMaskRows == {<<0, 1>>, <<1, 0>>}

\* inputs.input_ids[i] and outputs.logits[i] of one input.
FillMaskItems ==
    UNION {[ids : {ids}, logits : [1..Len(ids) -> FillMaskRows]] : ids \in FillMaskIds}

\* ids.lastIndexOf(this.tokenizer.mask_token_id): the last mask, not the first.
LastMaskTokenIndex(ids) ==
    IF \E i \in 1..Len(ids) : ids[i] = MaskToken
    THEN CHOOSE i \in 1..Len(ids) :
            ids[i] = MaskToken /\ \A j \in (i + 1)..Len(ids) : ids[j] # MaskToken
    ELSE 0

\* ids.indexOf(this.tokenizer.mask_token_id); 0 stands for the source's -1.
MaskTokenIndex(ids) ==
    IF \E i \in 1..Len(ids) : ids[i] = MaskToken
    THEN CHOOSE i \in 1..Len(ids) : ids[i] = MaskToken /\ \A j \in 1..(i - 1) : ids[j] # MaskToken
    ELSE 0

\* Error(`Mask token (${tokenizer.mask_token}) not found in text.`)
MaskNotFoundError ==
    [name |-> "Mask token not found in text", task |-> <<MaskToken>>, keys |-> <<>>,
     from |-> "FillMaskPipeline"]

\* tokenizer.decode(sequence, {skip_special_tokens: true})
FillMaskSequence(sequence) ==
    SelectSeq(sequence, LAMBDA t : t # MaskToken /\ t # SepToken)

\* The predictions pushed for one input whose mask is at mask_token_index.
FillMaskPredictions(item, mask_token_index, k) ==
    LET scores == getTopItems(softmax(item.logits[mask_token_index]), k)
    IN  ArrayOf([c \in 1..Len(scores) |->
            [tag |-> "object", score |-> scores[c].score, token |-> scores[c].index,
             token_str |-> Vocab[scores[c].index],
             sequence |-> FillMaskSequence(
                 [item.ids EXCEPT ![mask_token_index] = Vocab[scores[c].index]])]])

RECURSIVE FillMaskLoop(_, _, _)
\* for (let i = 0; i < inputs.input_ids.dims[0]; ++i): the loop ends at the
\* first input without a mask token, which throws.
FillMaskLoop(acc, items, k) ==
    IF items = <<>> THEN [threw |-> FALSE, toReturn |-> acc]
    ELSE LET mask_token_index == MaskTokenIndex(Head(items).ids)
         IN  IF mask_token_index = 0 THEN [threw |-> TRUE, toReturn |-> acc]
             ELSE FillMaskLoop(Append(acc, FillMaskPredictions(Head(items), mask_token_index, k)),
                               Tail(items), k)

\* The model call of Pipeline._call resolves.
FillMaskModelReturns ==
    /\ cpc = "model" /\ kind = "FillMaskPipeline"
    /\ outputs' \in [1..texts.n -> FillMaskItems]
    /\ cpc' = "decode"
    /\ UNCHANGED <<kind, texts, topk, toReturn, result>>
    /\ UNCHANGED <<factoryVars, asrVars, optionVars, invocations>>

FillMaskDecode ==
    /\ cpc = "decode" /\ kind = "FillMaskPipeline"
    /\ LET r == FillMaskLoop(<<>>, outputs, topk)
       IN  /\ toReturn' = r.toReturn
           /\ IF r.threw
              THEN error' = MaskNotFoundError /\ cpc' = "threw" /\ result' = result
              ELSE /\ error' = error /\ cpc' = "done"
                   /\ result' = IF texts.isArray THEN ArrayOf(r.toReturn) ELSE r.toReturn[1]
    /\ UNCHANGED <<kind, texts, topk, outputs>>
    /\ UNCHANGED <<candidate_labels, multi_label, entails_logits, subtask, fn,
                   feature_extractor, calls>>
    /\ UNCHANGED <<factoryVars, asrVars, invocations>>

InitFillMask ==
    /\ cpc = "start"
    /\ kind = "FillMaskPipeline"
    /\ texts \in InputShapes
    /\ topk \in TopkInputs
    /\ outputs = <<>> /\ toReturn = <<>> /\ result = NotReturned
    /\ FactoryIdle /\ AsrIdle /\ OptionsIdle /\ InvocationsIdle

NextFillMask == CallStart \/ FillMaskModelReturns \/ FillMaskDecode

SpecFillMask == InitFillMask /\ [][NextFillMask]_vars

(***************************************************************************)
(* Claims about fill-mask, checked under SpecFillMask.                     *)
(***************************************************************************)
FillMaskSettled == kind = "FillMaskPipeline" /\ cpc \in {"done", "threw"}

HasMask(ids) == \E p \in 1..Len(ids) : ids[p] = MaskToken

\* C18: if the ids of any input of the batch hold no mask token, the call
\* throws the mask-token-not-found error and returns nothing; when every
\* input holds one, each input's predictions are made at the position of the
\* first mask token of that input.
C18_MaskRequiredFirstMaskUsed ==
    FillMaskSettled =>
        IF \E i \in 1..Len(outputs) : ~HasMask(outputs[i].ids)
        THEN /\ cpc = "threw"
             /\ error = MaskNotFoundError
             /\ result = NotReturned
        ELSE /\ cpc = "done"
             /\ Len(toReturn) = texts.n
             /\ result = (IF texts.isArray THEN ArrayOf(toReturn) ELSE toReturn[1])
             /\ \A i \in 1..Len(outputs) :
                   \E p \in 1..Len(outputs[i].ids) :
                      /\ outputs[i].ids[p] = MaskToken
                      /\ \A q \in 1..(p - 1) : outputs[i].ids[q] # MaskToken
                      /\ \E row \in 1..Len(Vocab) :
                            /\ toReturn[i].items[1].token = row
                            /\ toReturn[i].items[1].score = softmax(outputs[i].logits[p])[row]
                            /\ \A v \in 1..Len(Vocab) :
                                  ~ScoreLess(toReturn[i].items[1].score,
                                             softmax(outputs[i].logits[p])[v])
                      /\ \A c \in 1..Len(toReturn[i].items) :
                            toReturn[i].items[c].sequence =
                                FillMaskSequence([outputs[i].ids EXCEPT
                                    ![p] = toReturn[i].items[c].token_str])

\* An input with two mask tokens whose positions get different logits: the
\* prediction is the best token of the first position.
C18_Witness ==
    /\ FillMaskSettled /\ cpc = "done"
    /\ outputs[1].ids = <<MaskToken, WordToken, MaskToken>>
    /\ outputs[1].logits[1] = <<0, 1>>
    /\ outputs[1].logits[3] = <<1, 0>>
    /\ toReturn[1].items[1].token_str = "b"
    /\ toReturn[1].items[1].sequence = <<"b", WordToken>>

(***************************************************************************)
(* Claims about the chunk list and the generation loop of speech           *)
(* recognition, checked under SpecASR.                                     *)
(***************************************************************************)
\* The windowing loop of a chunked call has ended: chunks is complete.
ChunkListComplete == apc \in {"generate", "generating", "done"} /\ chunk_length_s > 0

\* The overlaps of a chunk, in samples.
Total(ch) == ch.stride[1][1]
Left(ch) == ch.stride[2][1]
Right(ch) == ch.stride[3][1]

\* C21: in the chunk list of a clip chunked with chunk_length_s > 0, the
\* first chunk has left overlap 0, the last chunk has right overlap 0, and
\* every chunk that is neither first nor last has left and right overlap
\* sampling_rate * stride_length_s.
C21_EdgeOverlapsZero ==
    (ChunkListComplete /\ chunks # <<>>) =>
        /\ Left(chunks[1]) = 0
        /\ Right(chunks[Len(chunks)]) = 0
        /\ \A c \in 2..(Len(chunks) - 1) :
              /\ Left(chunks[c]) = StrideOf(stride_length_s[1])
              /\ Right(chunks[c]) = StrideOf(stride_length_s[1])

\* A clip cut into three chunks with a stride of a third of a second.
C21_Witness ==
    /\ ChunkListComplete
    /\ stride_length_s = <<2>>
    /\ Len(chunks) = 3
    /\ Left(chunks[2]) = 2 /\ Right(chunks[2]) = 2

\* The entries of the trace from the first generate call on.
GenerationTrace == SelectSeq(trace, LAMBDA e : e.op # "processor")

\* The events of a call with n chunks, in the claimed order.
ExpectedEvents(n, cb) ==
    LET per == IF cb THEN 3 ELSE 2
    IN  [i \in 1..(per * n + 1) |->
            IF i = per * n + 1 THEN "merge"
            ELSE <<"generate", "resolved", "callback">>[((i - 1) % per) + 1]]
ExpectedChunk(n, cb) ==
    LET per == IF cb THEN 3 ELSE 2
    IN  [i \in 1..(per * n + 1) |-> IF i = per * n + 1 THEN n ELSE ((i - 1) \div per) + 1]

\* C22: within one invocation the events are generate(chunk 1), callback(chunk
\* 1), generate(chunk 2), callback(chunk 2), ..., merge: a generate call
\* starts only after the previous one has resolved, chunk_callback, when
\* given, is called once per chunk after that chunk's generation and before
\* the next generate call, and the merge runs once, after the last callback.
C22_GenerateCallbackMergeInOrder ==
    apc \in {"generate", "generating", "done"} =>
        LET got == GenerationTrace
            n == Len(chunks)
        IN  /\ Len(got) <= Len(ExpectedEvents(n, chunk_callback))
            /\ \A i \in 1..Len(got) :
                  /\ got[i].op = ExpectedEvents(n, chunk_callback)[i]
                  /\ got[i].chunk = ExpectedChunk(n, chunk_callback)[i]
            /\ apc = "done" => Len(got) = Len(ExpectedEvents(n, chunk_callback))
            /\ apc = "generating" => got[Len(got)].op = "generate"

\* A call with a callback and two chunks has returned.
C22_Witness ==
    /\ apc = "done"
    /\ chunk_callback
    /\ Len(chunks) = 2
    /\ Len(GenerationTrace) = 7

(***************************************************************************)
(* Invocations of one pipeline instance that overlap in time.              *)
(*                                                                         *)
(* The caller may invoke the instance again while an earlier invocation is *)
(* suspended at an await; every step below is one run-to-completion piece  *)
(* of an invocation.  An invocation makes n calls to this.model, one after *)
(* the other: generate per chunk (speech recognition), forward per         *)
(* hypothesis (zero-shot classification).                                  *)
(***************************************************************************)
ConcurrentKinds == {"AutomaticSpeechRecognitionPipeline", "ZeroShotClassificationPipeline"}

NotStarted == [pc |-> "not started", n |-> 0, made |-> 0]

\* The caller invokes the instance.  Speech recognition first awaits the
\* preprocessing and the processor; zero-shot classification calls the model
\* in its synchronous prefix.
Invoke(i, n) ==
    /\ invocations[i].pc = "not started"
    /\ invocations' = [invocations EXCEPT ![i] =
          IF kind = "AutomaticSpeechRecognitionPipeline"
          THEN [pc |-> "chunking", n |-> n, made |-> 0]
          ELSE [pc |-> "model", n |-> n, made |-> 1]]
    /\ UNCHANGED <<factoryVars, callVars, optionVars, asrVars>>

\* The chunk list of a speech-recognition invocation is complete: generate
\* is called for the first chunk.
InvocationChunked(i) ==
    /\ invocations[i].pc = "chunking"
    /\ invocations' = [invocations EXCEPT ![i].pc = "model", ![i].made = 1]
    /\ UNCHANGED <<factoryVars, callVars, optionVars, asrVars>>

\* The outstanding model call of invocation i resolves: the next call is
\* made, or the invocation returns.
ModelResolves(i) ==
    /\ invocations[i].pc = "model"
    /\ invocations' = [invocations EXCEPT ![i] =
          IF @.made < @.n THEN [@ EXCEPT !.made = @ + 1] ELSE [@ EXCEPT !.pc = "done"]]
    /\ UNCHANGED <<factoryVars, callVars, optionVars, asrVars>>

InitConcurrent ==
    /\ invocations = [i \in 1..MaxInvocations |-> NotStarted]
    /\ kind \in ConcurrentKinds
    /\ cpc = "idle" /\ texts = [isArray |-> FALSE, n |-> 0] /\ topk = 0
    /\ outputs = <<>> /\ toReturn = <<>> /\ result = NotReturned
    /\ FactoryIdle /\ OptionsIdle /\ AsrIdle

NextConcurrent ==
    \E i \in 1..MaxInvocations :
        \/ \E n \in 1..MaxChunks : Invoke(i, n)
        \/ InvocationChunked(i)
        \/ ModelResolves(i)

SpecConcurrent == InitConcurrent /\ [][NextConcurrent]_vars

\* The invocations whose model call is outstanding.
Outstanding == {i \in DOMAIN invocations : invocations[i].pc = "model"}

\* C23: for any interleaving of the invocations of one pipeline instance, a
\* second one started before the first has completed included, at most one
\* forward/generate call is outstanding against the model at any time.
C23_OneModelCallOutstanding == Cardinality(Outstanding) <= 1

(***************************************************************************)
(* Speech recognition: the unit of the stride triples, the end of the      *)
(* windowing loop, and the shape of the chunk list.                        *)
(***************************************************************************)
\* A stride triple that was divided by the sampling rate k times has the
\* denominator sampling_rate^k in each of its components.
InUnit(st, d) == \A i \in 1..3 : st[i][2] = d

\* C24: a chunk's stride triple is in samples from its creation until its
\* generate call has resolved and is converted to seconds exactly once then:
\* generate is called with a stride in samples, chunk_callback is called
\* with a stride in seconds, and every chunk handed to the merge is in
\* seconds; no stride is converted twice.
C24_StrideConvertedOnce ==
    /\ \A c \in 1..Len(chunks) :
          InUnit(chunks[c].stride, IF c <= generated THEN sampling_rate ELSE 1)
    /\ \A e \in 1..Len(trace) :
          /\ trace[e].op = "generate" => InUnit(trace[e].stride, 1)
          /\ trace[e].op = "callback" => InUnit(trace[e].stride, sampling_rate)
    /\ apc = "done" => \A c \in 1..Len(chunks) : InUnit(chunks[c].stride, sampling_rate)

C24_Witness ==
    /\ apc = "done" /\ chunk_callback /\ Len(chunks) = 2
    /\ \E e \in 1..Len(trace) : trace[e].op = "callback" /\ trace[e].chunk = 2

\* C25: for every accepted option combination the windowing loop ends; the
\* offset strictly increases in each iteration.
C25_OffsetStrictlyIncreases == [][AsrChunk => offset' > offset]_vars

\* The chunk list was handed to this.tokenizer._decode_asr, for a non-empty
\* clip.
ChunksMerged == apc = "done" /\ aud > 0

OneLastAndFinal ==
    /\ chunks # <<>>
    /\ \A c \in 1..Len(chunks) : chunks[c].is_last <=> c = Len(chunks)

OffsetsIncrease == \A c \in 1..(Len(chunks) - 1) : chunks[c].offset < chunks[c + 1].offset

\* C26, as stated: in the chunk list handed to the merge for a non-empty
\* clip exactly one chunk has is_last and it is the final one, the offsets
\* increase, and a chunk has right overlap 0 if and only if it has is_last.
C26_RightZeroIffLast ==
    ChunksMerged =>
        /\ OneLastAndFinal
        /\ OffsetsIncrease
        /\ \A c \in 1..Len(chunks) : Right(chunks[c]) = 0 <=> chunks[c].is_last

\* C26, as the code has it: in the chunk list handed to the merge for a
\* non-empty clip exactly one chunk has is_last and it is the final one, the
\* offsets increase, a chunk with is_last has right overlap 0, and when the
\* stride is positive a chunk with right overlap 0 has is_last.
C26_LastChunkShape ==
    ChunksMerged =>
        /\ OneLastAndFinal
        /\ OffsetsIncrease
        /\ \A c \in 1..Len(chunks) :
              /\ chunks[c].is_last => Right(chunks[c]) = 0
              /\ (chunk_length_s > 0 /\ StrideOf(stride_length_s[1]) > 0 /\ Right(chunks[c]) = 0)
                    => chunks[c].is_last

C26_Witness ==
    /\ ChunksMerged /\ Len(chunks) = 3 /\ StrideOf(stride_length_s[1]) > 0
    /\ chunks[3].is_last /\ Right(chunks[3]) = 0 /\ Right(chunks[1]) > 0

\* C27: every chunk of a completed chunk list has total > 0 and
\* left + right <= total, the truncated final window included.  Stated for
\* a non-empty clip, whose chunks all hold at least one sample.
C27_OverlapsWithinChunk ==
    (apc \in {"generate", "generating", "done"} /\ aud > 0) =>
        \A c \in 1..Len(chunks) :
            /\ Total(chunks[c]) > 0
            /\ Left(chunks[c]) + Right(chunks[c]) <= Total(chunks[c])

====
